---- MODULE Spec2Model ----
(***************************************************************************)
(* bolt-rawgen (cmd/bolt-rawgen/main.go): the tree walk, the per-file      *)
(* regeneration driver (process), the generator (visitTypeSpec and the     *)
(* four emitters) and the codec the emitted Encode/Decode/accessor text    *)
(* denotes.                                                                *)
(*                                                                         *)
(* Text is a sequence of tokens.  A token is a record [k, n, u, f]: k is   *)
(* the kind of text, n and u are identifiers (byte sequences, as Go        *)
(* strings are), f is a sequence of items [names, typ, op].                *)
(*   "NL" "SP"      one "\n" / one " "                                     *)
(*   "BEGIN" "END"  the pragma comments //raw:codegen:begin and            *)
(*                  //raw:codegen:end, in any letter case                  *)
(*   "HDR"          the four "DO NOT CHANGE" comment lines                 *)
(*   "PKGRAW" "PKG" a package clause with imports, with / without          *)
(*                  "github.com/boltdb/raw"                                *)
(*   "BAD"          text go/parser rejects                                 *)
(*   "decl"         type n struct { f }      "typedef"  type n <non-struct>*)
(*   "encode" "decode" "accessors"   the emitted functions of type n / u   *)
(*   "partial"      what an emitter wrote before it returned an error      *)
(***************************************************************************)
EXTENDS Integers, Sequences, FiniteSets, TLC

VARIABLES
    tree,       \* the walked tree in walk order: the entries and the files' content on disk
    idx,        \* filepath.Walk's position in the tree
    pc,         \* where main is: "walk", "parse", "visit", "exit"
    b,          \* process: the stripped content
    todo,       \* ast.Walk: the type declarations not yet visited
    gw,         \* generator.w
    gerr,       \* generator.err
    status,     \* main's outcome: "running", "ok" or the error log.Fatal prints
    log,        \* the files an "OK <path>" line was printed for, in order
    again,      \* whether the tool will be invoked a second time
    start,      \* history: the tree when the current invocation began
    before,     \* history: the current file's content when process was called
    prev,       \* history: the tree and the OK lines of the first invocation
    edited,     \* history: whether a declaration was added between the invocations
    wfail,      \* history: the files whose ioutil.WriteFile failed in this invocation
    last,       \* history: the node and buffer of the latest visitTypeSpec call
    cfield,     \* codec: the raw type of the record's field
    cval,       \* codec: the exported struct's field value
    cmem,       \* codec: the bytes Encode stored for the field
    cres,       \* codec: the value Decode put into the exported struct's field
    cpc         \* codec: "init", "encoded", "decoded" or "off"

vars == <<tree, idx, pc, b, todo, gw, gerr, status, log, again, start, before,
          prev, edited, wfail, last, cfield, cval, cmem, cres, cpc>>

fileVars == <<tree, idx, pc, b, todo, gw, gerr, status, log, again, start, before,
              prev, edited, wfail, last>>

codecVars == <<cfield, cval, cmem, cres, cpc>>

-----------------------------------------------------------------------------
(* Bounds *)

\* The longest hand-written body (tokens after the package clause) of a file.
MaxBody == 3
\* The most entries of a walked tree.
MaxFiles == 3
\* The most fields (field lines) of a struct declaration.
MaxFields == 2

-----------------------------------------------------------------------------
(* Text *)

Tok(k) == [k |-> k, n |-> <<>>, u |-> <<>>, f |-> <<>>]

NL == Tok("NL")

Item(names, typ, op) == [names |-> names, typ |-> typ, op |-> op]

Decl(name, fields) == [k |-> "decl", n |-> name, u |-> <<>>, f |-> fields]

Count(k, s) == Cardinality({i \in 1..Len(s) : s[i].k = k})

-----------------------------------------------------------------------------
(* Identifiers: tocamelcase and the exported test work on the first BYTE *)

\* unicode.IsUpper on a rune below 256 (Latin-1: A-Z, U+00C0-U+00D6, U+00D8-U+00DE).
IsUpper(r) == (r \in 65..90) \/ (r \in 192..214) \/ (r \in 216..222)

\* unicode.ToUpper on a rune below 256.
ToUpper(r) ==
    IF r \in 97..122 THEN r - 32
    ELSE IF r = 181 THEN 924
    ELSE IF r \in 224..254 /\ r # 247 THEN r - 32
    ELSE IF r = 255 THEN 376
    ELSE r

\* string(rune): the UTF-8 encoding of a rune.
RuneString(r) ==
    IF r < 128 THEN <<r>>
    ELSE IF r < 2048 THEN <<192 + (r \div 64), 128 + (r % 64)>>
    ELSE <<224 + (r \div 4096), 128 + ((r \div 64) % 64), 128 + (r % 64)>>

tocamelcase(s) ==
    IF s = <<>> THEN s ELSE RuneString(ToUpper(s[1])) \o Tail(s)

\* The test of visitTypeSpec: unicode.IsUpper(rune(node.Name.Name[0])).
NameIsUpper(name) == IsUpper(name[1])

-----------------------------------------------------------------------------
(* The closed type set *)

SignedTypes == {"int8", "int16", "int32", "int64"}
UnsignedTypes == {"uint8", "uint16", "uint32", "uint64"}
FloatTypes == {"float32", "float64"}

\* The cases of isRawStructType's switch.
RawTypes ==
    {"bool"} \cup SignedTypes \cup UnsignedTypes \cup FloatTypes
        \cup {"raw.Time", "raw.Duration", "raw.String"}

\* A classifier that accepts a struct as soon as one field line is raw.
isRawStructTypeAnyField(fields) ==
    fields = <<>> \/ \E i \in 1..Len(fields) : fields[i].typ \in RawTypes

\* isRawStructType: every field line's type is a case of the switch.
isRawStructType(fields) == \A i \in 1..Len(fields) : fields[i].typ \in RawTypes

\* writeExportedType's switch: the exported field type, "" for the default case.
ExportedFieldType(typ) ==
    IF typ = "bool" THEN "bool"
    ELSE IF typ \in SignedTypes THEN "int"
    ELSE IF typ \in UnsignedTypes THEN "uint"
    ELSE IF typ = "float32" THEN "float32"
    ELSE IF typ = "float64" THEN "float64"
    ELSE IF typ = "raw.Time" THEN "time.Time"
    ELSE IF typ = "raw.Duration" THEN "time.Duration"
    ELSE IF typ = "raw.String" THEN "string"
    ELSE ""

\* writeEncodeFunc's switch: the statement written for a name, "" for the default case.
EncodeOp(typ) ==
    IF typ = "bool" THEN "assign"
    ELSE IF typ \in SignedTypes \cup UnsignedTypes \cup FloatTypes THEN "cast"
    ELSE IF typ = "raw.Time" THEN "unixnano"
    ELSE IF typ = "raw.Duration" THEN "duration"
    ELSE IF typ = "raw.String" THEN "strencode"
    ELSE ""

\* An accessor switch whose unsigned case repeats the signed one.
AccessorOpSigned(typ) ==
    IF typ = "bool" THEN "field"
    ELSE IF typ \in SignedTypes \cup UnsignedTypes THEN "int"
    ELSE IF typ \in FloatTypes THEN "field"
    ELSE IF typ = "raw.Time" THEN "timeutc"
    ELSE IF typ = "raw.Duration" THEN "duration"
    ELSE IF typ = "raw.String" THEN "string"
    ELSE ""

\* writeAccessorFuncs' switch: the accessor written for a name, "" for the default case.
AccessorOp(typ) ==
    IF typ = "bool" THEN "field"
    ELSE IF typ \in SignedTypes THEN "int"
    ELSE IF typ \in UnsignedTypes THEN "uint"
    ELSE IF typ \in FloatTypes THEN "field"
    ELSE IF typ = "raw.Time" THEN "timeutc"
    ELSE IF typ = "raw.Duration" THEN "duration"
    ELSE IF typ = "raw.String" THEN "string"
    ELSE ""

-----------------------------------------------------------------------------
(* The emitters.  Each returns [text, ok]: what it wrote to w, and whether it *)
(* returned nil (ok) or an "invalid raw type" error.                          *)

RECURSIVE ExportedNames(_, _)
\* The inner loop of writeExportedType: one field line per name.
ExportedNames(names, typ) ==
    IF names = <<>> THEN <<>>
    ELSE <<Item(<<tocamelcase(Head(names))>>, typ, "field")>>
             \o ExportedNames(Tail(names), typ)

RECURSIVE ExportedFields(_)
\* The outer loop of writeExportedType: [items, ok], stopping at the default case.
ExportedFields(fields) ==
    IF fields = <<>> THEN [items |-> <<>>, ok |-> TRUE]
    ELSE IF ExportedFieldType(Head(fields).typ) = "" THEN [items |-> <<>>, ok |-> FALSE]
    ELSE LET rest == ExportedFields(Tail(fields))
         IN  [items |-> ExportedNames(Head(fields).names,
                                      ExportedFieldType(Head(fields).typ)) \o rest.items,
              ok |-> rest.ok]

writeExportedType(name, fields) ==
    LET r == ExportedFields(fields)
    IN  IF r.ok
        THEN [text |-> <<Decl(name, r.items), NL, NL>>, ok |-> TRUE]
        ELSE [text |-> <<[k |-> "partial", n |-> name, u |-> <<>>, f |-> r.items]>>,
              ok |-> FALSE]

\* The type the inner loop of writeEncodeFunc switches on for the next name:
\* after a numeric name was written, typ is overwritten with "uint".
EncodeNextTyp(typ) == IF EncodeOp(typ) = "cast" THEN "uint" ELSE typ

RECURSIVE EncodeNames(_, _)
\* The inner loop of writeEncodeFunc over the names of one field line.
EncodeNames(names, typ) ==
    IF names = <<>> THEN [items |-> <<>>, ok |-> TRUE]
    ELSE IF EncodeOp(typ) = "" THEN [items |-> <<>>, ok |-> FALSE]
    ELSE LET rest == EncodeNames(Tail(names), EncodeNextTyp(typ))
         IN  [items |-> <<Item(<<Head(names), tocamelcase(Head(names))>>,
                               typ, EncodeOp(typ))>> \o rest.items,
              ok |-> rest.ok]

RECURSIVE EncodeFields(_)
\* The outer loop of writeEncodeFunc.
EncodeFields(fields) ==
    IF fields = <<>> THEN [items |-> <<>>, ok |-> TRUE]
    ELSE LET first == EncodeNames(Head(fields).names, Head(fields).typ)
         IN  IF ~first.ok THEN first
             ELSE LET rest == EncodeFields(Tail(fields))
                  IN  [items |-> first.items \o rest.items, ok |-> rest.ok]

writeEncodeFunc(unexp, exp, fields) ==
    LET r == EncodeFields(fields)
    IN  [text |-> <<[k |-> IF r.ok THEN "encode" ELSE "partial",
                     n |-> exp, u |-> unexp, f |-> r.items]>>,
         ok |-> r.ok]

RECURSIVE DecodeNames(_)
DecodeNames(names) ==
    IF names = <<>> THEN <<>>
    ELSE <<Item(<<tocamelcase(Head(names))>>, "", "call")>> \o DecodeNames(Tail(names))

RECURSIVE DecodeFields(_)
DecodeFields(fields) ==
    IF fields = <<>> THEN <<>>
    ELSE DecodeNames(Head(fields).names) \o DecodeFields(Tail(fields))

writeDecodeFunc(unexp, exp, fields) ==
    [text |-> <<[k |-> "decode", n |-> exp, u |-> unexp, f |-> DecodeFields(fields)]>>,
     ok |-> TRUE]

RECURSIVE AccessorNames(_, _)
\* The inner loop of writeAccessorFuncs; typ is not overwritten here.
AccessorNames(names, typ) ==
    IF names = <<>> THEN [items |-> <<>>, ok |-> TRUE]
    ELSE IF AccessorOp(typ) = "" THEN [items |-> <<>>, ok |-> FALSE]
    ELSE LET rest == AccessorNames(Tail(names), typ)
         IN  [items |-> <<Item(<<tocamelcase(Head(names)), Head(names)>>,
                               typ, AccessorOp(typ))>> \o rest.items,
              ok |-> rest.ok]

RECURSIVE AccessorFields(_)
AccessorFields(fields) ==
    IF fields = <<>> THEN [items |-> <<>>, ok |-> TRUE]
    ELSE LET first == AccessorNames(Head(fields).names, Head(fields).typ)
         IN  IF ~first.ok THEN first
             ELSE LET rest == AccessorFields(Tail(fields))
                  IN  [items |-> first.items \o rest.items, ok |-> rest.ok]

writeAccessorFuncs(name, fields) ==
    LET r == AccessorFields(fields)
    IN  [text |-> <<[k |-> IF r.ok THEN "accessors" ELSE "partial",
                     n |-> <<>>, u |-> name, f |-> r.items]>>,
         ok |-> r.ok]

-----------------------------------------------------------------------------
(* generator.visitTypeSpec: [w, err], the buffer afterwards and the error     *)
(* returned ("nil" for none).                                                 *)

BlockHead == <<Tok("BEGIN"), NL, NL, Tok("HDR"), NL, NL>>
BlockTail == <<Tok("END"), NL, NL>>

visitTypeSpec(node, w) ==
    IF node.k # "decl" THEN [w |-> w, err |-> "nil"]
    ELSE IF ~isRawStructType(node.f) THEN [w |-> w, err |-> "nil"]
    ELSE IF NameIsUpper(node.n)
    THEN [w |-> w, err |-> "raw struct cannot be exported"]
    ELSE
      LET unexp == node.n
          exp == tocamelcase(node.n)
          w0 == w \o BlockHead
          t == writeExportedType(exp, node.f)
          e == writeEncodeFunc(unexp, exp, node.f)
          d == writeDecodeFunc(unexp, exp, node.f)
          a == writeAccessorFuncs(unexp, node.f)
      IN  IF ~t.ok THEN [w |-> w0 \o t.text, err |-> "generate exported type"]
          ELSE IF ~e.ok
          THEN [w |-> w0 \o t.text \o e.text, err |-> "generate encode func"]
          ELSE IF ~d.ok
          THEN [w |-> w0 \o t.text \o e.text \o d.text, err |-> "generate decode func"]
          ELSE IF ~a.ok
          THEN [w |-> w0 \o t.text \o e.text \o d.text \o a.text,
                err |-> "generate accessor funcs"]
          ELSE [w |-> w0 \o t.text \o e.text \o d.text \o a.text \o BlockTail,
                err |-> "nil"]

\* The errors visitTypeSpec wraps an emitter's "invalid raw type" error in.
InvalidRawTypeErrors ==
    {"generate exported type", "generate encode func",
     "generate decode func", "generate accessor funcs"}

-----------------------------------------------------------------------------
(* process: strip, trim, parse *)

\* The least j >= from with s[j] an END pragma, 0 if there is none.
NextEnd(s, from) ==
    LET js == {j \in from..Len(s) : s[j].k = "END"}
    IN  IF js = {} THEN 0 ELSE CHOOSE j \in js : \A x \in js : j <= x

RECURSIVE StripFrom(_, _)
\* regexp (?is)//raw:codegen:begin.+?//raw:codegen:end, ReplaceAll with nothing:
\* leftmost matches, each from a BEGIN over at least one character to the
\* nearest END; an END right after the BEGIN is part of the ".+?".
StripFrom(s, i) ==
    IF i > Len(s) THEN <<>>
    ELSE IF s[i].k = "BEGIN" /\ NextEnd(s, i + 2) # 0
    THEN StripFrom(s, NextEnd(s, i + 2) + 1)
    ELSE <<s[i]>> \o StripFrom(s, i + 1)

\* The first BEGIN that starts a match, 0 if there is none.
FirstMatch(s) ==
    LET is == {i \in 1..Len(s) : s[i].k = "BEGIN" /\ NextEnd(s, i + 2) # 0}
    IN  IF is = {} THEN 0 ELSE CHOOSE i \in is : \A x \in is : i <= x

\* A strip that replaces the first match only.
StripFirstPragma(s) ==
    IF FirstMatch(s) = 0 THEN s
    ELSE SubSeq(s, 1, FirstMatch(s) - 1)
           \o SubSeq(s, NextEnd(s, FirstMatch(s) + 2) + 1, Len(s))

StripPragmas(s) == StripFrom(s, 1)

RECURSIVE TrimRight(_)
\* strings.TrimRight(s, " \n\r")
TrimRight(s) ==
    IF s # <<>> /\ s[Len(s)].k \in {"NL", "SP"}
    THEN TrimRight(SubSeq(s, 1, Len(s) - 1))
    ELSE s

\* Lines 94-95 of process.
Stripped(content) == TrimRight(StripPragmas(content))

\* Comments and white space, which the parser skips.
IsBlank(t) == t.k \in {"NL", "SP", "BEGIN", "END", "HDR"}

\* The first token that is not blank, 0 if there is none.
FirstCode(s) ==
    LET js == {j \in 1..Len(s) : ~IsBlank(s[j])}
    IN  IF js = {} THEN 0 ELSE CHOOSE j \in js : \A x \in js : j <= x

\* parser.ParseFile(..., parser.ImportsOnly) fails unless the file starts
\* with a package clause; it does not read past the imports.
ImportsParseOk(content) ==
    FirstCode(content) # 0 /\ content[FirstCode(content)].k \in {"PKGRAW", "PKG"}

\* importsRaw: "err", "true" or "false".
importsRaw(content) ==
    IF ~ImportsParseOk(content) THEN "err"
    ELSE IF content[FirstCode(content)].k = "PKGRAW" THEN "true"
    ELSE "false"

\* parser.ParseFile(..., 0): the whole file must be Go.
ParseOk(s) ==
    /\ ImportsParseOk(s)
    /\ \A j \in 1..Len(s) :
          /\ s[j].k \notin {"BAD", "partial"}
          /\ s[j].k \in {"PKGRAW", "PKG"} => j = FirstCode(s)

\* The *ast.TypeSpec nodes of the file, in the order ast.Walk visits them.
IsTypeSpec(t) == t.k \in {"decl", "typedef"}
TypeSpecs(s) == SelectSeq(s, IsTypeSpec)

-----------------------------------------------------------------------------
(* The inputs: identifiers, declarations, files, trees *)

SeqsUpTo(S, n) == UNION {[1..m -> S] : m \in 0..n}

name_p == <<112>>                   \* "p"
name_q == <<113>>                   \* "q"
name_r == <<114>>                   \* "r"
name_m == <<109>>                   \* "m"
name_P == <<80>>                    \* "P"
name_Bad == <<66, 97, 100>>         \* "Bad"
name_A1E00 == <<225, 184, 128>>     \* U+1E00, LATIN CAPITAL LETTER A WITH RING BELOW
field_x == <<120>>                  \* "x"
field_y == <<121>>                  \* "y"

Line(names, typ) == Item(names, typ, "field")

decl_p == Decl(name_p, <<Line(<<field_x>>, "int32")>>)
decl_q == Decl(name_q, <<Line(<<field_x>>, "raw.String"), Line(<<field_y>>, "bool")>>)
decl_r == Decl(name_r, <<Line(<<field_x>>, "uint8")>>)
\* raw-eligible and exported
decl_P == Decl(name_P, <<Line(<<field_x>>, "int32")>>)
\* two names on one numeric field line
decl_m == Decl(name_m, <<Line(<<field_x, field_y>>, "int32")>>)
\* one field outside the closed set
decl_Bad == Decl(name_Bad, <<Line(<<field_x>>, "int32"), Line(<<field_y>>, "string")>>)

\* What a hand-written body is made of.
BodyTokens ==
    {NL, Tok("BEGIN"), Tok("END"), Tok("BAD"),
     decl_p, decl_q, decl_P, decl_m, decl_Bad}

\* The bodies: no type is declared twice.
Bodies ==
    {s \in SeqsUpTo(BodyTokens, MaxBody) :
        \A i, j \in 1..Len(s) : (i # j /\ s[i].k = "decl") => s[i] # s[j]}

Entry(kind, go, wr, content) ==
    [kind |-> kind, go |-> go, wr |-> wr, content |-> content]

GoFile(content) == Entry("file", TRUE, "ok", content)

\* A tree of one file that imports raw, with any body.
TreesSingle == {<<GoFile(<<Tok("PKGRAW")>> \o body)>> : body \in Bodies}

\* The kinds of entry the walk tells apart.  wr is what ioutil.WriteFile will
\* do: "ok", "denied" (the open fails) or "short" (the write fails part-way).
WalkEntries ==
    {Entry("dir", FALSE, "ok", <<>>),
     Entry("missing", FALSE, "ok", <<>>),
     Entry("file", FALSE, "ok", <<Tok("PKGRAW"), decl_p>>),
     GoFile(<<Tok("BAD")>>),
     GoFile(<<Tok("PKG"), decl_p>>),
     GoFile(<<Tok("PKGRAW"), decl_p>>),
     GoFile(<<Tok("PKGRAW"), decl_q, decl_m>>),
     GoFile(<<Tok("PKGRAW"), Tok("BAD")>>),
     Entry("file", TRUE, "denied", <<Tok("PKGRAW"), decl_p>>),
     Entry("file", TRUE, "short", <<Tok("PKGRAW"), decl_q>>)}

TreesMulti == UNION {[1..m -> WalkEntries] : m \in 1..MaxFiles}

\* tostr(f.Type) of a field line: a raw type, another identifier, or "" for a
\* type that is neither an identifier nor a selector.
FieldTypes == RawTypes \cup {"string", ""}

FieldLines == {Line(ns, typ) : ns \in {<<field_x>>, <<field_x, field_y>>}, typ \in FieldTypes}

TypeSpecNodes ==
    {Decl(n, fs) : n \in {name_p, name_P, name_A1E00}, fs \in SeqsUpTo(FieldLines, MaxFields)}
        \cup {[k |-> "typedef", n |-> name_p, u |-> <<>>, f |-> <<>>]}

\* A tree of one file that imports raw and declares one type.
TreesDecl == {<<GoFile(<<Tok("PKGRAW"), d>>)>> : d \in TypeSpecNodes}

-----------------------------------------------------------------------------
(* main, walk and process *)

NoCall == [node |-> Tok("none"), w |-> <<>>]

NoPrev == [tree |-> <<>>, log |-> <<>>, status |-> "none", wfail |-> {}]

CodecOff ==
    /\ cfield = ""
    /\ cval = [bytes |-> <<>>, loc |-> ""]
    /\ cmem = <<>>
    /\ cres = [bytes |-> <<>>, loc |-> ""]
    /\ cpc = "off"

InitRun(trees, rerun) ==
    /\ tree \in trees
    /\ start = tree
    /\ idx = 1
    /\ pc = "walk"
    /\ b = <<>> /\ todo = <<>> /\ gw = <<>> /\ gerr = "nil"
    /\ status = "running"
    /\ log = <<>>
    /\ again = rerun
    /\ before = <<>>
    /\ prev = NoPrev
    /\ edited = FALSE
    /\ wfail = {}
    /\ last = NoCall
    /\ CodecOff

Init == InitRun(TreesSingle \cup TreesMulti, TRUE)

InitDecl == InitRun(TreesDecl \cup TreesMulti, FALSE)

Walking == pc = "walk" /\ idx <= Len(tree)

\* A walk that records the error and goes on to the next entry.
FatalContinue(err) ==
    /\ status' = err
    /\ pc' = "walk"
    /\ idx' = idx + 1
    /\ b' = <<>> /\ todo' = <<>> /\ gw' = <<>> /\ gerr' = "nil"

\* walk returns err, filepath.Walk stops and returns it, log.Fatal(err): the
\* run ends at this entry with the error.
Fatal(err) ==
    /\ status' = err
    /\ pc' = "exit"
    /\ idx' = idx
    /\ b' = <<>> /\ todo' = <<>> /\ gw' = <<>> /\ gerr' = "nil"

\* walk returns nil: filepath.Walk goes on to the next entry.
NextEntry ==
    /\ idx' = idx + 1
    /\ pc' = "walk"
    /\ b' = <<>> /\ todo' = <<>> /\ gw' = <<>> /\ gerr' = "nil"

\* walk, info == nil
WalkNotFound ==
    /\ Walking /\ tree[idx].kind = "missing"
    /\ Fatal("file not found")
    /\ UNCHANGED <<tree, log, again, start, before, prev, edited, wfail, last, codecVars>>

\* walk, info.IsDir()
WalkSkipDir ==
    /\ Walking /\ tree[idx].kind = "dir"
    /\ NextEntry
    /\ UNCHANGED <<tree, status, log, again, start, before, prev, edited, wfail, last, codecVars>>

\* walk, filepath.Ext(path) != ".go"
WalkSkipExt ==
    /\ Walking /\ tree[idx].kind = "file" /\ ~tree[idx].go
    /\ NextEntry
    /\ UNCHANGED <<tree, status, log, again, start, before, prev, edited, wfail, last, codecVars>>

IsGoFile(e) == e.kind = "file" /\ e.go

\* walk, importsRaw returns an error
WalkImportsErr ==
    /\ Walking /\ IsGoFile(tree[idx]) /\ importsRaw(tree[idx].content) = "err"
    /\ Fatal("imports parse error")
    /\ UNCHANGED <<tree, log, again, start, before, prev, edited, wfail, last, codecVars>>

\* walk, the file does not import raw
WalkSkipNoRaw ==
    /\ Walking /\ IsGoFile(tree[idx]) /\ importsRaw(tree[idx].content) = "false"
    /\ NextEntry
    /\ UNCHANGED <<tree, status, log, again, start, before, prev, edited, wfail, last, codecVars>>

\* walk calls process: ioutil.ReadFile, the regexp and TrimRight.  (ReadFile
\* reads the file importsRaw has just read.)
ProcessRead ==
    /\ Walking /\ IsGoFile(tree[idx]) /\ importsRaw(tree[idx].content) = "true"
    /\ before' = tree[idx].content
    /\ b' = Stripped(tree[idx].content)
    /\ pc' = "parse"
    /\ UNCHANGED <<tree, idx, todo, gw, gerr, status, log, again, start, prev, edited,
                   wfail, last, codecVars>>

\* process, parser.ParseFile returns an error
ProcessParseErr ==
    /\ pc = "parse" /\ ~ParseOk(b)
    /\ Fatal("parse error")
    /\ UNCHANGED <<tree, log, again, start, before, prev, edited, wfail, last, codecVars>>

\* A process that does not write the two newlines after b.
ProcessParseNoNewlines ==
    /\ pc = "parse" /\ ParseOk(b)
    /\ gw' = b
    /\ todo' = TypeSpecs(b)
    /\ gerr' = "nil"
    /\ pc' = "visit"
    /\ last' = NoCall
    /\ UNCHANGED <<tree, idx, b, status, log, again, start, before, prev, edited, wfail,
                   codecVars>>

\* process: g.w.Write(b); g.w.WriteString("\n\n"); ast.Walk(&g, f) begins
ProcessParse ==
    /\ pc = "parse" /\ ParseOk(b)
    /\ gw' = b \o <<NL, NL>>
    /\ todo' = TypeSpecs(b)
    /\ gerr' = "nil"
    /\ pc' = "visit"
    /\ last' = NoCall
    /\ UNCHANGED <<tree, idx, b, status, log, again, start, before, prev, edited, wfail,
                   codecVars>>

\* generator.Visit on the next *ast.TypeSpec while g.err is nil
Visit ==
    /\ pc = "visit" /\ gerr = "nil" /\ todo # <<>>
    /\ LET r == visitTypeSpec(Head(todo), gw)
       IN  gw' = r.w /\ gerr' = r.err
    /\ todo' = Tail(todo)
    /\ last' = [node |-> Head(todo), w |-> gw]
    /\ UNCHANGED <<tree, idx, pc, b, status, log, again, start, before, prev, edited,
                   wfail, codecVars>>

\* A process that rewrites the file before it looks at g.err.
ProcessGenErrAfterWrite ==
    /\ pc = "visit" /\ gerr # "nil"
    /\ tree' = [tree EXCEPT ![idx].content = gw]
    /\ Fatal(gerr)
    /\ UNCHANGED <<log, again, start, before, prev, edited, wfail, last, codecVars>>

\* process: if g.err != nil { return g.err }
ProcessGenErr ==
    /\ pc = "visit" /\ gerr # "nil"
    /\ Fatal(gerr)
    /\ UNCHANGED <<tree, log, again, start, before, prev, edited, wfail, last, codecVars>>

\* What ioutil.WriteFile leaves in the file: the data; the old content when
\* the open fails; when the write fails after the file was truncated, a
\* proper prefix of the data (here: nothing, or all but the last token).
WriteOutcomes(e, data) ==
    IF e.wr = "ok" THEN {data}
    ELSE IF e.wr = "denied" THEN {e.content}
    ELSE {SubSeq(data, 1, n) : n \in {0, Len(data) - 1}}

\* process: ioutil.WriteFile (its error is dropped), log.Println("OK", path),
\* return nil; walk returns nil.
ProcessWrite ==
    /\ pc = "visit" /\ gerr = "nil" /\ todo = <<>>
    /\ \E c \in WriteOutcomes(tree[idx], gw) : tree' = [tree EXCEPT ![idx].content = c]
    /\ wfail' = IF tree[idx].wr = "ok" THEN wfail ELSE wfail \cup {idx}
    /\ log' = Append(log, idx)
    /\ NextEntry
    /\ UNCHANGED <<status, again, start, before, prev, edited, last, codecVars>>

\* filepath.Walk returns nil: main returns.
WalkDone ==
    /\ pc = "walk" /\ idx > Len(tree)
    /\ status' = "ok"
    /\ pc' = "exit"
    /\ UNCHANGED <<tree, idx, b, todo, gw, gerr, log, again, start, before, prev, edited,
                   wfail, last, codecVars>>

Run ==
    \/ WalkNotFound \/ WalkSkipDir \/ WalkSkipExt \/ WalkImportsErr \/ WalkSkipNoRaw
    \/ ProcessRead \/ ProcessParseErr \/ ProcessParse \/ Visit \/ ProcessGenErr
    \/ ProcessWrite \/ WalkDone

InsertAfter(s, i, t) == SubSeq(s, 1, i) \o <<t>> \o SubSeq(s, i + 1, Len(s))

\* main is entered again on tree t.
Invoke(t) ==
    /\ pc = "exit" /\ again
    /\ again' = FALSE
    /\ prev' = [tree |-> tree, log |-> log, status |-> status, wfail |-> wfail]
    /\ tree' = t
    /\ start' = t
    /\ idx' = 1
    /\ pc' = "walk"
    /\ status' = "running"
    /\ log' = <<>>
    /\ wfail' = {}
    /\ before' = <<>>
    /\ last' = NoCall
    /\ UNCHANGED <<b, todo, gw, gerr, codecVars>>

\* The tool is invoked again on the same tree.
Rerun == Invoke(tree) /\ UNCHANGED edited

\* One more eligible declaration is written into the first file, right after
\* its imports, and the tool is invoked again.
EditRerun ==
    /\ IsGoFile(tree[1]) /\ ImportsParseOk(tree[1].content)
    /\ Invoke([tree EXCEPT ![1].content =
                  InsertAfter(tree[1].content, FirstCode(tree[1].content), decl_r)])
    /\ edited' = TRUE

Next == Run \/ Rerun \/ EditRerun

Spec == Init /\ [][Next]_vars

\* One invocation on a tree, with every declaration shape.
SpecDecl == InitDecl /\ [][Run]_vars

-----------------------------------------------------------------------------
(* The codec the emitted text denotes.  A value is [bytes, loc]: its bytes,   *)
(* least significant first (int and uint are 64 bits wide), and for a         *)
(* time.Time its location.  A time is taken inside the range of UnixNano.     *)

\* unsafe.Sizeof of a field of a raw type that is a Go number or bool.
Width(typ) ==
    IF typ \in {"bool", "int8", "uint8"} THEN 1
    ELSE IF typ \in {"int16", "uint16"} THEN 2
    ELSE IF typ \in {"int32", "uint32", "float32"} THEN 4
    ELSE 8

\* unsafe.Sizeof of the exported field: bool 1, float32 4, the others 8.
ExportedWidth(typ) == IF typ = "bool" THEN 1 ELSE IF typ = "float32" THEN 4 ELSE 8

Pad(n, x) == [i \in 1..n |-> x]

\* The statement writeEncodeFunc writes for a name: what r.<name> holds after it.
ExecEncode(item, v) ==
    IF item.op = "cast" THEN SubSeq(v.bytes, 1, Width(item.typ))
    ELSE v.bytes

\* The accessor writeAccessorFuncs writes for a name: the value it returns.
ExecAccessor(item, mem) ==
    IF item.op = "int"
    THEN [bytes |-> mem \o Pad(8 - Len(mem), IF mem[Len(mem)] >= 128 THEN 255 ELSE 0),
          loc |-> ""]
    ELSE IF item.op = "uint"
    THEN [bytes |-> mem \o Pad(8 - Len(mem), 0), loc |-> ""]
    ELSE IF item.op = "timeutc"
    THEN [bytes |-> mem, loc |-> "UTC"]
    ELSE [bytes |-> mem, loc |-> ""]

\* The byte values a field value is built from.
SampleBytes == {0, 128, 255}

CodecTypes == RawTypes \ {"raw.String"}

CodecValues(typ) ==
    IF typ = "bool" THEN {[bytes |-> <<x>>, loc |-> ""] : x \in {0, 1}}
    ELSE IF typ = "raw.Time"
    THEN {[bytes |-> bs, loc |-> l] : bs \in [1..8 -> SampleBytes], l \in {"UTC", "Local"}}
    ELSE {[bytes |-> bs, loc |-> ""] : bs \in [1..ExportedWidth(typ) -> SampleBytes]}

InitCodec ==
    /\ tree = <<>> /\ start = <<>> /\ idx = 1 /\ pc = "exit"
    /\ b = <<>> /\ todo = <<>> /\ gw = <<>> /\ gerr = "nil"
    /\ status = "ok" /\ log = <<>> /\ again = FALSE /\ before = <<>>
    /\ prev = NoPrev /\ edited = FALSE /\ wfail = {} /\ last = NoCall
    /\ cfield \in CodecTypes
    /\ cval \in CodecValues(cfield)
    /\ cmem = <<>>
    /\ cres = [bytes |-> <<>>, loc |-> ""]
    /\ cpc = "init"

\* The record type the codec is generated for: type rec struct { x <cfield> }.
CodecFields == <<Line(<<field_x>>, cfield)>>

\* (o *Rec).Encode(): the statement emitted for x, run on o.X.
CodecEncode ==
    /\ cpc = "init"
    /\ EncodeFields(CodecFields).ok
    /\ cmem' = ExecEncode(EncodeFields(CodecFields).items[1], cval)
    /\ cpc' = "encoded"
    /\ UNCHANGED <<fileVars, cfield, cval, cres>>

\* (o *Rec).Decode(b): o.X = r.X(), the accessor emitted for x.
CodecDecode ==
    /\ cpc = "encoded"
    /\ AccessorFields(CodecFields).ok
    /\ cres' = ExecAccessor(AccessorFields(CodecFields).items[1], cmem)
    /\ cpc' = "decoded"
    /\ UNCHANGED <<fileVars, cfield, cval, cmem>>

NextCodec == CodecEncode \/ CodecDecode

SpecCodec == InitCodec /\ [][NextCodec]_vars

-----------------------------------------------------------------------------
(* The vocabulary of the claims *)

Range(f) == {f[i] : i \in DOMAIN f}

\* The closed primitive set, as the specification lists it.
ClosedTypeSet ==
    {"bool", "int8", "int16", "int32", "int64", "uint8", "uint16", "uint32", "uint64",
     "float32", "float64", "raw.Time", "raw.Duration", "raw.String"}

AllInClosedSet(fields) == \A i \in 1..Len(fields) : fields[i].typ \in ClosedTypeSet

HasFieldOutside(fields) == \E i \in 1..Len(fields) : fields[i].typ \notin ClosedTypeSet

\* The first character of an identifier, decoded from UTF-8.
FirstRune(name) ==
    IF name[1] < 128 THEN name[1]
    ELSE IF name[1] < 224 THEN (name[1] - 192) * 64 + (name[2] - 128)
    ELSE (name[1] - 224) * 4096 + (name[2] - 128) * 64 + (name[3] - 128)

\* An uppercase letter (Unicode Lu) among Basic Latin, Latin-1 and Latin
\* Extended Additional U+1E00..U+1E94, where the capitals are the even points.
IsUppercaseLetter(r) ==
    \/ r \in 65..90
    \/ r \in 192..214
    \/ r \in 216..222
    \/ (r \in 7680..7828 /\ r % 2 = 0)

\* The name begins with an uppercase letter: Go exports it.
BeginsUpper(name) == IsUppercaseLetter(FirstRune(name))

\* visitTypeSpec has just been called on a struct declaration.
VisitedStruct == pc = "visit" /\ last.node.k = "decl"

IsEligibleDecl(t) == t.k = "decl" /\ AllInClosedSet(t.f)

EligibleDecls(s) == SelectSeq(s, IsEligibleDecl)

IsStructDecl(t) == t.k = "decl"

\* The files process rewrote and reported OK in this invocation.
Rewritten == {i \in Range(log) : i \notin wfail}

\* No begin pragma with an end pragma after it, at least one token apart.
NoSpan(s) ==
    ~\E i \in 1..Len(s) : \E j \in (i + 2)..Len(s) : s[i].k = "BEGIN" /\ s[j].k = "END"

NoPragma(s) == Count("BEGIN", s) = 0 /\ Count("END", s) = 0

IsPrefix(s, t) == Len(s) <= Len(t) /\ SubSeq(t, 1, Len(s)) = s

RECURSIVE MapNames(_)
\* The exported names of a sequence of declarations.
MapNames(ds) ==
    IF ds = <<>> THEN <<>> ELSE <<tocamelcase(Head(ds).n)>> \o MapNames(Tail(ds))

RECURSIVE Names(_)
Names(ds) == IF ds = <<>> THEN <<>> ELSE <<Head(ds).n>> \o Names(Tail(ds))

RECURSIVE FreshBlocks(_)
\* What the generator emits for a sequence of declarations, none failing.
FreshBlocks(ds) ==
    IF ds = <<>> THEN <<>>
    ELSE visitTypeSpec(Head(ds), <<>>).w \o FreshBlocks(Tail(ds))

ProcessErrors ==
    {"parse error", "raw struct cannot be exported"} \cup InvalidRawTypeErrors

IsError(st) == st \notin {"running", "ok", "none"}

-----------------------------------------------------------------------------
(* C1 *)

\* C1: idempotency.  When the tool has run twice on the same file with no
\* edit between, both runs succeeded and every write went through, the file
\* after the second run is the file after the first run.
Idempotent ==
    (/\ pc = "exit" /\ ~again /\ ~edited
     /\ prev.status = "ok" /\ status = "ok"
     /\ prev.wfail = {} /\ wfail = {})
        => tree = prev.tree

-----------------------------------------------------------------------------
(* C2 *)

\* C2: a raw-eligible struct declaration whose name begins with an uppercase
\* letter makes visitTypeSpec return "raw struct cannot be exported" and
\* write nothing to the buffer.
ExportedRawRejected ==
    (VisitedStruct /\ AllInClosedSet(last.node.f) /\ BeginsUpper(last.node.n))
        => (gerr = "raw struct cannot be exported" /\ gw = last.w)

-----------------------------------------------------------------------------
(* C3 *)

\* C3: a struct declaration with a field outside the closed type set raises
\* no error and adds nothing to the buffer, whatever its name, its other
\* fields and the place of the field; a rewritten file whose struct
\* declarations all have such a field gains no begin pragma.
ClosedTypeSetSkipped ==
    /\ (VisitedStruct /\ HasFieldOutside(last.node.f))
          => (gerr = "nil" /\ gw = last.w)
    /\ \A i \in Rewritten :
          LET s == Stripped(start[i].content)
          IN  (\A j \in 1..Len(s) : IsStructDecl(s[j]) => HasFieldOutside(s[j].f))
                 => Count("BEGIN", tree[i].content) = Count("BEGIN", s)

\* An exported struct whose first field is raw and whose second is not was
\* visited, and the file was then rewritten without a block.
ClosedTypeSetSkippedWitness ==
    /\ pc = "exit" /\ status = "ok" /\ log = <<1>>
    /\ last.node.k = "decl" /\ Len(last.node.f) = 2
    /\ last.node.f[1].typ \in ClosedTypeSet
    /\ last.node.f[2].typ \notin ClosedTypeSet
    /\ BeginsUpper(last.node.n)
    /\ tree[1].content = start[1].content \o <<NL, NL>>

-----------------------------------------------------------------------------
(* C4 *)

-----------------------------------------------------------------------------
(* C5 *)

\* The value is one the declared width can hold: the bytes above the width
\* repeat the sign (int-N) or are zero (uint-N).
FitsWidth(typ, bytes) ==
    \A j \in (Width(typ) + 1)..Len(bytes) :
        bytes[j] = IF typ \in SignedTypes /\ bytes[Width(typ)] >= 128 THEN 255 ELSE 0

-----------------------------------------------------------------------------
(* C6 *)

\* C6: a file whose write failed is not reported OK and the run does not
\* end in success.
WriteErrorsFatal ==
    \A i \in wfail : i \notin Range(log) /\ status # "ok"

-----------------------------------------------------------------------------
(* C7 *)

\* Entries at and after the walk's position are as the invocation found
\* them and not reported; the reported files are the ones before it, in order.
WalkInOrder ==
    /\ \A i \in 1..Len(tree) : i >= idx => (tree[i] = start[i] /\ i \notin Range(log))
    /\ \A j \in 1..Len(log) : log[j] < idx /\ (j > 1 => log[j - 1] < log[j])
    /\ (pc = "exit" /\ IsError(status)) => idx <= Len(tree)

\* Within an invocation: after an error nothing is rewritten or reported and
\* the walk does not move; a file already rewritten keeps its content.
FailFastStep ==
    again' = again =>
        /\ IsError(status) => (tree' = tree /\ log' = log /\ idx' = idx /\ status' = status)
        /\ \A i \in Range(log) : tree'[i] = tree[i]

\* C7: files are processed one at a time in walk order, and once a file
\* fails no later file is read, rewritten or reported, while the files
\* rewritten before it keep their content.
FailFastSequential == []WalkInOrder /\ [][FailFastStep]_vars

\* The second of three files failed after the first was rewritten; the
\* third, which imports raw, is untouched.
FailFastSequentialWitness ==
    /\ pc = "exit" /\ IsError(status) /\ idx = 2 /\ Len(tree) = 3
    /\ log = <<1>> /\ tree[1] # start[1]
    /\ IsGoFile(tree[3]) /\ importsRaw(tree[3].content) = "true"
    /\ tree[3] = start[3]

-----------------------------------------------------------------------------
(* C8 *)

\* C8: when process has returned an error, the file holds what it held when
\* process was called.
NoPartialCommit ==
    (pc = "exit" /\ status \in ProcessErrors)
        => (tree[idx].content = before /\ tree[idx] = start[idx])

\* An emitter failed on the second eligible declaration, after the first one
\* was emitted into the buffer.
NoPartialCommitWitness ==
    /\ pc = "exit" /\ status \in InvalidRawTypeErrors
    /\ \E j \in 1..Len(before) : \E k \in (j + 1)..Len(before) :
          /\ IsEligibleDecl(before[j]) /\ ~BeginsUpper(before[j].n)
          /\ before[j].f[1].names = <<field_x>>
          /\ before[k] = last.node
    /\ tree[idx].content = before

-----------------------------------------------------------------------------
(* C9 *)

\* C9: for a struct declaration isRawStructType accepts and whose name is
\* not exported, no emitter fails with an "invalid raw type" error.
EmittersInLockStep ==
    (VisitedStruct /\ AllInClosedSet(last.node.f) /\ ~BeginsUpper(last.node.n))
        => gerr \notin InvalidRawTypeErrors

-----------------------------------------------------------------------------
(* C10 *)

\* C10 as stated: a rewritten file is the stripped content, then two
\* newlines and the generated text when a declaration is eligible, and
\* nothing more when none is.
OutputComposition ==
    \A i \in Rewritten :
        LET s == Stripped(start[i].content)
        IN  tree[i].content =
              IF EligibleDecls(s) = <<>> THEN s
              ELSE s \o <<NL, NL>> \o FreshBlocks(EligibleDecls(s))

\* C10 amended: a rewritten file is the stripped content, then two newlines
\* in every case, then one generated block per eligible declaration; with no
\* eligible declaration it is the stripped content and the two newlines.
OutputCompositionAmended ==
    \A i \in Rewritten :
        LET s == Stripped(start[i].content)
        IN  /\ tree[i].content = s \o <<NL, NL>> \o FreshBlocks(EligibleDecls(s))
            /\ (s = <<>> \/ s[Len(s)].k \notin {"NL", "SP"})
            /\ NoSpan(s)
            /\ Len(s) <= Len(start[i].content)

\* A second run on a file that held generated text: the span was stripped,
\* and the file was rewritten with an eligible declaration.
OutputCompositionAmendedWitness ==
    /\ pc = "exit" /\ status = "ok" /\ ~again /\ log = <<1>>
    /\ Stripped(start[1].content) # start[1].content
    /\ EligibleDecls(Stripped(start[1].content)) # <<>>
    /\ Count("BEGIN", start[1].content) >= 1

====
